---- MODULE Spec2Model ----
\* Iambic tone generator (Arduino sketch): the paddle interpreter
\* (updateMainState), the tone sequencer (updateToneState), the speed setter
\* (setWordSpeed) and the serial command interface (updateCommands), as run
\* by loop().  Times are milliseconds as returned by millis().
EXTENDS Integers, Sequences, FiniteSets, TLC

\* ------------------------------------------------------------------ bounds
\* The clock is explored from 0 (setup) up to MaxTime milliseconds.
MaxTime == 330
\* The clock is observed on a grid of Tick milliseconds.
Tick == 30
\* At most MaxSerial characters are waiting on the serial port per loop pass.
MaxSerial == 1
\* The millisecond counter and toneTimer are unsigned long: counters modulo
\* 2^32.  The model keeps the same arithmetic on a counter of ClockBits
\* bits, wide enough for every duration and for the window above.
ClockBits == 10
\* The wrap-around is explored from WrapLead milliseconds before it.
WrapLead == 240
\* At most MaxElems elements are followed in one history (the window above
\* has room for fewer, unless phases are cut short).
MaxElems == 3
\* A speed typed on the serial port has at most MaxDigits digits.
MaxDigits == 2
\* Milliseconds the clock may advance between two passes of loop().
Steps == {0, Tick}
\* Milliseconds the clock may advance between the two millis() calls made
\* inside one call of updateToneState (the test and the new deadline).
Jitter == {0, Tick}
\* Words-per-minute values handed to setWordSpeed by a caller.
Wpms == {10, 20, 40}
\* Characters that may arrive on the serial port.
Chars == {"?", "w", "2", "\r", "\n"}

\* ------------------------------------------------------- program constants
CODE_SPEED == 20
IDLE_STATE == 0
DIT_INPUT == 1
DAH_INPUT == 2
DIT_DAH_INPUT == 3
DAH_DIT_INPUT == 4
TONE_ON == 1
TONE_PAUSE == 2
QUIET == 0
DIT == 1
DAH == 2
DIT_DAH == 3
DAH_DIT == 4
CMD_IDLE == 0
CMD_ARGUMENT == 1
PRINT_HELP == 0
SET_SPEED == 1
LINE_BUFFER_SIZE == 80

\* #define WORD_TIME 60.0 / CODE_SPEED, DIT_TIME 1000 * WORD_TIME / 50,
\* DAH_TIME DIT_TIME * 3: textual macros, so DIT_TIME is the expression
\* 1000 * 60.0 / CODE_SPEED / 50 evaluated left to right in floating point
\* (60000.0 / 20 = 3000.0, / 50 = 60.0, * 3 = 180.0: all exact).
DIT_TIME == ((1000 * 60) \div CODE_SPEED) \div 50
DAH_TIME == (((1000 * 60) \div CODE_SPEED) \div 50) * 3

VARIABLES
  pc,            \* the call loop() makes next
  now,           \* the millisecond clock, millis()
  state,         \* paddle interpreter state
  toneType,      \* tone intent handed to the sequencer
  toneState,     \* sequencer state
  lastTone,      \* last element started
  toneTimer,     \* deadline of the current phase
  ditTime,       \* set by setWordSpeed
  dahTime,       \* set by setWordSpeed
  command,       \* the Command struct
  tonePin,       \* TRUE while tone() is sounding on TONE_PIN
  ditKeyInput,   \* last reading of the dit paddle in updateMainState
  dahKeyInput,   \* last reading of the dah paddle in updateMainState
  done,          \* value returned by the last call of updateToneState
  speed,         \* history: argument of the last setWordSpeed call
  scenario,      \* history: shape of the paddle readings since both machines were idle
  elems,         \* history: elements started since the scenario began
  stopTime,      \* history: clock reading at the last noTone(), -1 before any
  startTime,     \* history: clock reading at the last tone(), -1 before any
  silenceAtStart,\* history: the dit duration read when the last tone started
  speedAtStart,  \* history: speed when the last tone started
  mark,          \* history: index in elems where the squeeze / the release began
  wasIdle,       \* history: state was IDLE_STATE when updateMainState was last entered
  typed          \* history: the 'w' line read whole by the last updateCommands, else <<>>

vars == <<pc, now, state, toneType, toneState, lastTone,
          toneTimer, ditTime, dahTime, command, tonePin, ditKeyInput,
          dahKeyInput, done, speed, scenario, elems, stopTime,
          startTime, silenceAtStart, speedAtStart, mark, wasIdle, typed>>

\* ---------------------------------------------------------- setWordSpeed
\* (unsigned long)(60.0 / (float)speed): the quotient truncated to an
\* integer; then 1000.0 * wordTime / 50.0 and ditTime * 3.0, both exact.
\* speed <= 0 makes the conversion to unsigned long out of range
\* (undefined): ub is the value the build then produces.
setWordSpeed(sp, ub) ==
  LET wordTime == IF sp > 0 THEN 60 \div sp ELSE ub
      dit == (1000 * wordTime) \div 50
  IN [ditTime |-> dit, dahTime |-> dit * 3]

\* ---------------------------------------------------------- updateCommands
\* Command::begin(cmd)
begin(cmd) ==
  [state |-> CMD_ARGUMENT, command |-> cmd, index |-> 0, line |-> <<>>]

Digits == <<"0", "1", "2", "3", "4", "5", "6", "7", "8", "9">>

IsDigit(c) == \E i \in 1..10 : Digits[i] = c

DigitValue(c) == (CHOOSE i \in 1..10 : Digits[i] = c) - 1

\* atoi(command.line): the buffer holds digits only; the empty buffer gives 0.
RECURSIVE atoi(_)
atoi(line) ==
  IF line = <<>> THEN 0
  ELSE atoi(SubSeq(line, 1, Len(line) - 1)) * 10 + DigitValue(line[Len(line)])

IsEol(c) == c = "\r" \/ c = "\n"

\* One pass of the while loop of updateCommands on character c.  cs holds
\* the state the loop can change: the Command struct, ditTime, dahTime (and
\* the history of the last setWordSpeed argument).
CommandChar(cs, c, ub) ==
  IF cs.command.state = CMD_IDLE THEN
    IF c = "?" THEN [cs EXCEPT !.command = begin(PRINT_HELP)]
    ELSE cs                      \* 'w' and other characters only print
  ELSE IF cs.command.state = CMD_ARGUMENT THEN
    IF cs.command.command = PRINT_HELP THEN
      IF IsEol(c) THEN [cs EXCEPT !.command.state = CMD_IDLE] ELSE cs
    ELSE IF cs.command.command = SET_SPEED THEN
      IF IsEol(c) THEN
        LET codeSpeed == atoi(cs.command.line)
            t == setWordSpeed(codeSpeed, ub)
        IN [cs EXCEPT !.ditTime = t.ditTime, !.dahTime = t.dahTime,
                      !.speed = codeSpeed, !.command.state = CMD_IDLE]
      ELSE IF IsDigit(c) THEN
        LET idx == cs.command.index + 1
        IN [cs EXCEPT !.command.line = Append(@, c),
                      !.command.index = idx,
                      !.command.state =
                         IF idx >= LINE_BUFFER_SIZE THEN CMD_IDLE ELSE @]
      ELSE cs
    ELSE cs
  ELSE cs

\* while (Serial.available() > 0): every waiting character, in order.
RECURSIVE CommandChars(_, _, _)
CommandChars(cs, input, ub) ==
  IF input = <<>> THEN cs
  ELSE CommandChars(CommandChar(cs, Head(input), ub), Tail(input), ub)

\* What may be waiting on the serial port at one pass of loop().
SerialInputs == UNION {[1..n -> Chars] : n \in 0..MaxSerial}

\* Values an out-of-range float to unsigned long conversion may produce.
UbValues == {0, 1}

\* The conversion is reached only while a SET_SPEED command is being read.
UbChoices(cmd) == IF cmd.command = SET_SPEED THEN UbValues ELSE {0}

updateCommands ==
  /\ pc = "updateCommands"
  /\ \E input \in SerialInputs, ub \in UbChoices(command) :
       \E cs \in {CommandChars([command |-> command, ditTime |-> ditTime,
                                dahTime |-> dahTime, speed |-> speed],
                               input, ub)} :
          /\ command' = cs.command
          /\ ditTime' = cs.ditTime
          /\ dahTime' = cs.dahTime
          /\ speed' = cs.speed
  /\ typed' = <<>>
  /\ pc' = "updateMainState"
  /\ UNCHANGED <<now, state, toneType, toneState, lastTone, toneTimer,
                 tonePin, ditKeyInput, dahKeyInput, done, scenario, elems,
                 stopTime, startTime, silenceAtStart, speedAtStart, mark,
                 wasIdle>>

\* The runs of digits a terminal may type as a speed.
DigitRuns == UNION {[1..n -> {"2"}] : n \in 1..MaxDigits}

\* The lines 'w', a run of digits, a line terminator.
SerialLines ==
  {<<"w">> \o ds \o <<eol>> : ds \in DigitRuns, eol \in {"\r", "\n"}}

\* updateCommands entered with command.state = CMD_IDLE and a whole 'w' line
\* waiting on the serial port: the while loop reads every character of it.
receiveLine ==
  /\ pc = "updateCommands"
  /\ command.state = CMD_IDLE
  /\ \E line \in SerialLines :
       \E cs \in {CommandChars([command |-> command, ditTime |-> ditTime,
                                dahTime |-> dahTime, speed |-> speed],
                               line, 0)} :
          /\ command' = cs.command
          /\ ditTime' = cs.ditTime
          /\ dahTime' = cs.dahTime
          /\ speed' = cs.speed
          /\ typed' = line
  /\ pc' = "updateMainState"
  /\ UNCHANGED <<now, state, toneType, toneState, lastTone, toneTimer,
                 tonePin, ditKeyInput, dahKeyInput, done, scenario, elems,
                 stopTime, startTime, silenceAtStart, speedAtStart, mark,
                 wasIdle>>

\* --------------------------------------------------------- updateMainState
\* Mutant: the squeeze ends only when both paddles are open (&& for ||).
SqueezeReleasedBoth(dit, dah) == ~dit /\ ~dah

\* Mutant: the squeeze ends only when the dit paddle is open.
SqueezeReleasedDit(dit, dah) == ~dit

\* case DIT_DAH_INPUT: if (!ditKeyInput || !dahKeyInput)
SqueezeReleased(dit, dah) == ~dit \/ ~dah

\* Mutant: a squeeze entered from DAH_INPUT goes to the state DAH_DIT_INPUT.
SqueezeTargetByFirst(st) ==
  IF st = DIT_INPUT THEN DIT_DAH_INPUT ELSE DAH_DIT_INPUT

\* state = DIT_DAH_INPUT in case DIT_INPUT and in case DAH_INPUT alike.
SqueezeTarget(st) == DIT_DAH_INPUT

\* The switch on state; a state with no case (DAH_DIT_INPUT) changes nothing.
MainStep(st, tt, dit, dah) ==
  IF st = IDLE_STATE THEN
    IF dit THEN [state |-> DIT_INPUT, toneType |-> DIT]
    ELSE IF dah THEN [state |-> DAH_INPUT, toneType |-> DAH]
    ELSE [state |-> st, toneType |-> QUIET]
  ELSE IF st = DIT_INPUT THEN
    IF ~dit /\ ~dah THEN [state |-> IDLE_STATE, toneType |-> QUIET]
    ELSE IF dit /\ dah THEN [state |-> SqueezeTarget(st), toneType |-> DIT_DAH]
    ELSE [state |-> st, toneType |-> tt]
  ELSE IF st = DAH_INPUT THEN
    IF ~dit /\ ~dah THEN [state |-> IDLE_STATE, toneType |-> QUIET]
    ELSE IF dit /\ dah THEN [state |-> SqueezeTarget(st), toneType |-> DAH_DIT]
    ELSE [state |-> st, toneType |-> tt]
  ELSE IF st = DIT_DAH_INPUT THEN
    IF SqueezeReleased(dit, dah)
    THEN [state |-> IDLE_STATE, toneType |-> QUIET]
    ELSE [state |-> st, toneType |-> tt]
  ELSE [state |-> st, toneType |-> tt]

\* History only: the shape of the paddle readings since both state machines
\* were last idle.  rest: nothing pressed yet; dit1/dah1: that paddle alone
\* read closed on one pass; ditBrief/dahBrief: ... and both open on every pass
\* since; ditHold/dahHold: that paddle alone closed on every pass; ditSq/dahSq:
\* that paddle alone first, then both closed on every pass since; sqRelDit:
\* after a squeeze the dit paddle opened and the dah paddle alone stays
\* closed; sqRelDah: the reverse; late: after a brief press a paddle is read
\* closed while the one element is still in progress (tone or pause) and
\* nothing further has been started; lateGone: ... and both are read open
\* again; other: any other history.
NextScenario(sc, dit, dah) ==
  LET only == IF dit /\ dah THEN "both" ELSE IF dit THEN "dit"
              ELSE IF dah THEN "dah" ELSE "none"
  IN CASE sc = "rest" ->
            (CASE only = "none" -> "rest" [] only = "dit" -> "dit1"
               [] only = "dah" -> "dah1" [] OTHER -> "other")
       [] sc = "dit1" ->
            (CASE only = "none" -> "ditBrief" [] only = "dit" -> "ditHold"
               [] only = "both" -> "ditSq" [] OTHER -> "other")
       [] sc = "dah1" ->
            (CASE only = "none" -> "dahBrief" [] only = "dah" -> "dahHold"
               [] only = "both" -> "dahSq" [] OTHER -> "other")
       [] sc = "ditHold" ->
            (CASE only = "dit" -> "ditHold" [] only = "both" -> "ditSq"
               [] OTHER -> "other")
       [] sc = "dahHold" ->
            (CASE only = "dah" -> "dahHold" [] only = "both" -> "dahSq"
               [] OTHER -> "other")
       [] sc \in {"ditBrief", "dahBrief"} ->
            IF only = "none" THEN sc
            ELSE IF toneState # IDLE_STATE THEN "late" ELSE "other"
       [] sc \in {"late", "lateGone"} ->
            IF Len(elems) # 1 THEN "other"
            ELSE IF only = "none" THEN "lateGone"
            ELSE IF toneState # IDLE_STATE THEN "late" ELSE "other"
       [] sc \in {"ditSq", "dahSq"} ->
            (CASE only = "both" -> sc [] only = "dah" -> "sqRelDit"
               [] only = "dit" -> "sqRelDah" [] OTHER -> "other")
       [] sc = "sqRelDit" -> IF only = "dah" THEN sc ELSE "other"
       [] sc = "sqRelDah" -> IF only = "dit" THEN sc ELSE "other"
       [] OTHER -> "other"

\* History only: a finished history starts over once both machines are idle.
Restart(sc, dit, dah) ==
  /\ state = IDLE_STATE
  /\ toneState = IDLE_STATE
  /\ \/ sc = "other"
     \/ sc \in {"ditBrief", "dahBrief", "lateGone"} /\ (dit \/ dah)

\* History only: where in elems the squeeze sequence begins (the element in
\* progress when the second paddle closed, else the next one started), and,
\* once one paddle is released, the first element started after the release.
NextMark(sc, el, dit, dah) ==
  LET nsc == NextScenario(sc, dit, dah)
  IN IF nsc \in {"ditSq", "dahSq"} /\ sc \notin {"ditSq", "dahSq"}
     THEN (IF toneState = IDLE_STATE THEN Len(el) + 1 ELSE Len(el))
     ELSE IF nsc \in {"sqRelDit", "sqRelDah"} /\ sc \in {"ditSq", "dahSq"}
     THEN Len(el) + 1
     ELSE IF nsc \in {"ditSq", "dahSq", "sqRelDit", "sqRelDah"} THEN mark
     ELSE 0

updateMainState ==
  /\ pc = "updateMainState"
  /\ \E dit \in BOOLEAN, dah \in BOOLEAN :
       \E r \in {MainStep(state, toneType, dit, dah)},
          fresh \in {Restart(scenario, dit, dah)} :
          /\ ditKeyInput' = dit
          /\ dahKeyInput' = dah
          /\ state' = r.state
          /\ toneType' = r.toneType
          /\ scenario' = NextScenario(IF fresh THEN "rest" ELSE scenario,
                                      dit, dah)
          /\ elems' = IF fresh THEN <<>> ELSE elems
          /\ mark' = NextMark(IF fresh THEN "rest" ELSE scenario,
                              IF fresh THEN <<>> ELSE elems, dit, dah)
          /\ wasIdle' = (state = IDLE_STATE)
  /\ pc' = "updateToneState"
  /\ UNCHANGED <<now, toneState, lastTone, toneTimer, ditTime, dahTime,
                 command, tonePin, done, speed, stopTime, startTime,
                 silenceAtStart, speedAtStart, typed>>

\* --------------------------------------------------------- updateToneState
\* Mutant: the sequencer reads the variable the setter writes.
DitDurationVariable == ditTime

\* The durations the sequencer adds to millis(): the macros.
DitDuration == DIT_TIME

DahDuration == DAH_TIME

\* The clock counts modulo ClockModulus.
ClockModulus == 2 ^ ClockBits

\* What the conversion of an out-of-range floating-point value to unsigned
\* long may produce: the value modulo 2^w, or the largest unsigned long.
Overflows == {"wrap", "saturate"}

\* The conversion is out of range only if clock reading t plus the longest
\* duration does not fit the counter.
OverflowChoices(t) ==
  IF t + DahDuration >= ClockModulus THEN Overflows ELSE {"wrap"}

\* millis() + DIT_TIME is a floating-point sum (DIT_TIME is a floating-point
\* expression) converted back to unsigned long on assignment to toneTimer.
\* The sum is exact for the readings explored here (below 2^24); when it
\* does not fit the counter the conversion is undefined and gives ov.
Deadline(t, d, ov) ==
  IF t + d < ClockModulus THEN t + d
  ELSE IF ov = "wrap" THEN (t + d) % ClockModulus
  ELSE ClockModulus - 1

\* if (millis() > toneTimer)
Expired(t, timer) == t > timer

\* Mutant: a tone is cut as soon as the intent is QUIET.
TonePhaseOverOrQuiet(tt, t, timer) == Expired(t, timer) \/ tt = QUIET

\* case TONE_ON: if (millis() > toneTimer); the intent tt is not looked at.
TonePhaseOver(tt, t, timer) == Expired(t, timer)

\* Mutant: every element gets the dit duration.
ElementDurationDit(el) == DitDuration

\* millis() + DIT_TIME when a dit starts, millis() + DAH_TIME when a dah does.
ElementDuration(el) == IF el = DIT THEN DitDuration ELSE DahDuration

\* Mutant: the silence lasts as long as the element before it.
SilenceByElement(lt) == ElementDuration(lt)

\* The silence after element lt: millis() + DIT_TIME whatever lt is.
SilenceDuration(lt) == DitDuration

\* Mutant: the end of a pause always starts the next alternate element.
AlternatesAlways(tt) == TRUE

\* Mutant: every intent but QUIET alternates.
AlternatesUnlessQuiet(tt) == tt # QUIET

\* case TONE_PAUSE, once the pause is over: the intent decides.
Alternates(tt) == tt = DIT_DAH \/ tt = DAH_DIT

\* Mutant: the test reads DAH == lastTone, so the element repeats.
NextAlternateSame(lt) == IF lt = DAH THEN DAH ELSE DIT

\* The element a squeeze plays after lastTone lt.
NextAlternate(lt) == IF lt = DIT THEN DAH ELSE DIT

\* Mutant: the dit cases carry the default label, so QUIET starts a dit.
FirstElementDefaultDit(tt) ==
  IF tt = DAH \/ tt = DAH_DIT THEN DAH ELSE DIT

\* The element started from idle for intent tt (QUIET: none).
FirstElement(tt) ==
  IF tt = DIT \/ tt = DIT_DAH THEN DIT
  ELSE IF tt = DAH \/ tt = DAH_DIT THEN DAH
  ELSE QUIET

\* Mutant: the case QUIET label is missing, so a pause that ends with intent
\* QUIET does nothing.
GoesIdleNoQuiet(tt) == tt \in {DIT, DAH}

\* case QUIET: case DIT: case DAH: of an expired pause.
GoesIdle(tt) == tt \in {QUIET, DIT, DAH}

\* Mutant: lastTone is left alone when the sequencer goes idle.
LastToneKept(lt) == lt

\* lastTone = QUIET when the pause ends with intent QUIET, DIT or DAH.
LastToneAfterPause(lt) == QUIET

\* The body of updateToneState.  t1 is the clock read by the test
\* millis() > toneTimer and t2 the clock read when the new deadline is
\* computed (in the idle case the only reading).
ToneStep(ts, lt, timer, pin, tt, t1, t2, ov) ==
  LET keep == [toneState |-> ts, lastTone |-> lt, toneTimer |-> timer,
               tonePin |-> pin, done |-> FALSE]
      start(el) == [toneState |-> TONE_ON, lastTone |-> el,
                    toneTimer |-> Deadline(t2, ElementDuration(el), ov),
                    tonePin |-> TRUE, done |-> FALSE]
  IN IF ts = IDLE_STATE THEN
       IF FirstElement(tt) # QUIET THEN start(FirstElement(tt)) ELSE keep
     ELSE IF ts = TONE_ON THEN
       IF TonePhaseOver(tt, t1, timer)
       THEN [keep EXCEPT !.tonePin = FALSE,
                         !.toneTimer = Deadline(t2, SilenceDuration(lt), ov),
                         !.toneState = TONE_PAUSE]
       ELSE keep
     ELSE IF ts = TONE_PAUSE THEN
       IF Expired(t1, timer) THEN
         IF Alternates(tt) THEN start(NextAlternate(lt))
         ELSE IF GoesIdle(tt)
         THEN [keep EXCEPT !.toneState = IDLE_STATE,
                           !.lastTone = LastToneAfterPause(lt),
                           !.done = TRUE]
         ELSE keep
       ELSE keep
     ELSE keep

updateToneState ==
  /\ pc = "updateToneState"
  /\ Len(elems) <= MaxElems
  /\ \E d \in Steps, j \in Jitter :
       /\ now + d + j <= MaxTime \/ now >= ClockModulus - WrapLead
       /\ \E t2 \in {(now + d + j) % ClockModulus},
             ov \in OverflowChoices((now + d + j) % ClockModulus) :
          \E r \in {ToneStep(toneState, lastTone, toneTimer, tonePin,
                             toneType, (now + d) % ClockModulus, t2, ov)} :
             /\ now' = t2
             /\ toneState' = r.toneState
             /\ lastTone' = r.lastTone
             /\ toneTimer' = r.toneTimer
             /\ tonePin' = r.tonePin
             /\ done' = r.done
             /\ elems' = IF r.tonePin /\ ~tonePin
                         THEN Append(elems, r.lastTone) ELSE elems
             /\ stopTime' = IF tonePin /\ ~r.tonePin THEN t2 ELSE stopTime
             /\ startTime' = IF r.tonePin /\ ~tonePin THEN t2 ELSE startTime
             /\ silenceAtStart' = IF r.tonePin /\ ~tonePin
                                  THEN DitDuration ELSE silenceAtStart
             /\ speedAtStart' = IF r.tonePin /\ ~tonePin
                                THEN speed ELSE speedAtStart
  /\ pc' = "updateCommands"
  /\ UNCHANGED <<state, toneType, ditTime, dahTime, command, ditKeyInput,
                 dahKeyInput, speed, scenario, mark, wasIdle, typed>>

\* ------------------------------------------------------------------- setup
\* Globals are zero-initialised; setup() calls setWordSpeed(CODE_SPEED) and
\* sets state, toneState, lastTone and command.state.
Init ==
  /\ pc = "updateCommands"
  /\ now = 0
  /\ state = IDLE_STATE
  /\ toneType = QUIET
  /\ toneState = IDLE_STATE
  /\ lastTone = QUIET
  /\ toneTimer = 0
  /\ ditTime = setWordSpeed(CODE_SPEED, 0).ditTime
  /\ dahTime = setWordSpeed(CODE_SPEED, 0).dahTime
  /\ command = [state |-> CMD_IDLE, command |-> 0, index |-> 0, line |-> <<>>]
  /\ tonePin = FALSE
  /\ ditKeyInput = FALSE
  /\ dahKeyInput = FALSE
  /\ done = FALSE
  /\ speed = CODE_SPEED
  /\ scenario = "rest"
  /\ elems = <<>>
  /\ stopTime = -1
  /\ startTime = -1
  /\ silenceAtStart = 0
  /\ speedAtStart = CODE_SPEED
  /\ mark = 0
  /\ wasIdle = FALSE
  /\ typed = <<>>

\* loop(): updateCommands(); updateMainState(); updateToneState(toneType);
Next == updateCommands \/ updateMainState \/ updateToneState

Spec == Init /\ [][Next]_vars

\* The command layer calls setWordSpeed(wpm): updateCommands is where loop()
\* makes the call, so it happens between two passes.
callSetWordSpeed ==
  /\ pc = "updateCommands"
  /\ \E wpm \in Wpms \ {speed} :
       /\ ditTime' = setWordSpeed(wpm, 0).ditTime
       /\ dahTime' = setWordSpeed(wpm, 0).dahTime
       /\ speed' = wpm
  /\ UNCHANGED <<pc, now, state, toneType, toneState, lastTone, toneTimer,
                 command, tonePin, ditKeyInput, dahKeyInput, done, scenario,
                 elems, stopTime, startTime, silenceAtStart, speedAtStart,
                 mark, wasIdle, typed>>

NextSetSpeed == updateCommands \/ updateMainState \/ updateToneState
                  \/ callSetWordSpeed

SpecSetSpeed == Init /\ [][NextSetSpeed]_vars

\* loop() with whole 'w' lines arriving on the serial port as well.
NextSerial == updateCommands \/ updateMainState \/ updateToneState
                \/ receiveLine

SpecSerial == Init /\ [][NextSerial]_vars

\* The clock readings the wrap-around is explored from.
WrapStarts == {ClockModulus - WrapLead, ClockModulus - WrapLead + Tick - 1}

\* The program has been running idle, its paddles never touched, until
\* shortly before the millisecond counter wraps around.
InitWrap ==
  /\ pc = "updateCommands"
  /\ now \in WrapStarts
  /\ state = IDLE_STATE
  /\ toneType = QUIET
  /\ toneState = IDLE_STATE
  /\ lastTone = QUIET
  /\ toneTimer = 0
  /\ ditTime = setWordSpeed(CODE_SPEED, 0).ditTime
  /\ dahTime = setWordSpeed(CODE_SPEED, 0).dahTime
  /\ command = [state |-> CMD_IDLE, command |-> 0, index |-> 0, line |-> <<>>]
  /\ tonePin = FALSE
  /\ ditKeyInput = FALSE
  /\ dahKeyInput = FALSE
  /\ done = FALSE
  /\ speed = CODE_SPEED
  /\ scenario = "rest"
  /\ elems = <<>>
  /\ stopTime = -1
  /\ startTime = -1
  /\ silenceAtStart = 0
  /\ speedAtStart = CODE_SPEED
  /\ mark = 0
  /\ wasIdle = FALSE
  /\ typed = <<>>

SpecWrap == InitWrap /\ [][Next]_vars

\* A call of updateToneState that reads a later clock than the call before.
Advance == updateToneState /\ now' > now

\* loop() runs forever, so each of its three calls is made again and again,
\* and real time passes: the clock reading goes up again and again (until
\* the end of the explored window, where Advance is no longer enabled).
SpecLive ==
  /\ Init /\ [][Next]_vars
  /\ WF_vars(updateCommands)
  /\ WF_vars(updateMainState)
  /\ WF_vars(updateToneState)
  /\ SF_vars(Advance)

\* ================================================================== claims
ToneStarts == ~tonePin /\ tonePin'

ToneStops == tonePin /\ ~tonePin'

AllOf(el, kind) == \A i \in 1..Len(el) : el[i] = kind

HoldingDah == scenario \in {"dah1", "dahHold"}

Squeezing == scenario \in {"ditSq", "dahSq"}

Released == scenario \in {"sqRelDit", "sqRelDah"}

IdleOpenPass == wasIdle /\ ~ditKeyInput /\ ~dahKeyInput

C1_Step ==
  /\ (ToneStarts /\ stopTime # -1) => (now' >= stopTime + DIT_TIME)
  /\ ToneStops => (toneTimer' = now' + DIT_TIME /\ stopTime' = now')

\* C1: every element is followed by a silence of one dit-duration: a tone is
\* never started sooner than one dit-duration after the last tone stopped,
\* and the deadline set when a tone stops is the stop time plus one
\* dit-duration, after a dit and after a dah alike.
C1_SilenceAfterElement == [][C1_Step]_vars

\* C1 witness: a tone has been started again after the silence of a dah.
C1_Witness ==
  /\ tonePin
  /\ Len(elems) >= 2
  /\ elems[Len(elems) - 1] = DAH
  /\ startTime >= stopTime + DIT_TIME

BriefKind == IF scenario = "ditBrief" THEN DIT ELSE DAH

BriefDuration == IF scenario = "ditBrief" THEN DIT_TIME ELSE DAH_TIME

\* C2: a single brief press of one paddle (closed on one pass, open on every
\* later one), from idle, gives exactly one element of that paddle's kind:
\* its tone deadline is the start plus the dit (dah) duration, its silence
\* deadline the stop plus the dit duration, then the sequencer is idle with
\* the tone off and nothing further is started.
C2_BriefPressOneElement ==
  scenario \in {"ditBrief", "dahBrief"} =>
    /\ elems = <<BriefKind>>
    /\ (toneState = TONE_ON) =>
         (tonePin /\ lastTone = BriefKind
            /\ toneTimer = startTime + BriefDuration)
    /\ (toneState = TONE_PAUSE) =>
         (~tonePin /\ toneTimer = stopTime + DIT_TIME
            /\ stopTime >= startTime + BriefDuration)
    /\ (toneState = IDLE_STATE) =>
         (~tonePin /\ lastTone = QUIET /\ state = IDLE_STATE
            /\ now >= stopTime + DIT_TIME)

\* C2 witness: the one dah of a brief dah press has been played and the
\* sequencer is idle again.
C2_Witness ==
  /\ scenario = "dahBrief"
  /\ toneState = IDLE_STATE
  /\ elems = <<DAH>>
  /\ pc = "updateCommands"

C3_ClaimStep ==
  (HoldingDah /\ toneState = TONE_PAUSE /\ toneState' # TONE_PAUSE)
    => (tonePin' /\ lastTone' = DAH)

\* C3 as stated: while only the dah paddle is held, a new dah tone starts
\* at the very moment the silence of the previous element ends.
C3_Claim == [][C3_ClaimStep]_vars

C3_Inv ==
  HoldingDah =>
    /\ AllOf(elems, DAH)
    /\ state = DAH_INPUT
    /\ toneType = DAH
    /\ (toneState = TONE_ON) =>
         (tonePin /\ lastTone = DAH /\ toneTimer = startTime + DAH_TIME)
    /\ (toneState = TONE_PAUSE) =>
         (~tonePin /\ toneTimer = stopTime + DIT_TIME)

C3_Step ==
  HoldingDah =>
    /\ (toneState = TONE_PAUSE /\ toneState' # TONE_PAUSE) =>
         (toneState' = IDLE_STATE /\ done' /\ now' >= toneTimer)
    /\ (pc = "updateToneState" /\ toneState = IDLE_STATE) =>
         (tonePin' /\ lastTone' = DAH /\ toneTimer' = now' + DAH_TIME)

\* C3 amended: while only the dah paddle is held every element is a dah
\* with deadline start + dah duration, followed by a silence with deadline
\* stop + dit duration; when the silence ends the sequencer goes idle and
\* the next call of updateToneState starts the next dah, so the repetition
\* never stops.
C3_HoldDahRepeats == []C3_Inv /\ [][C3_Step]_vars

\* C3 witness: a second dah is sounding while the dah paddle is still held.
C3_Witness ==
  /\ scenario = "dahHold"
  /\ Len(elems) >= 2
  /\ tonePin

SqueezeFirst == IF scenario = "ditSq" THEN DIT ELSE DAH

SqueezeSecond == IF scenario = "ditSq" THEN DAH ELSE DIT

\* C4: one paddle closed first, then both held: the elements before the
\* second paddle closed are of the first paddle's kind, and from the element
\* in progress (or next started) when it closed the sequence is first kind,
\* other kind, first kind, ...; each silence deadline is the stop plus one
\* dit duration, and the sequencer does not rest while both are held.
C4_SqueezeAlternates ==
  Squeezing =>
    /\ state = DIT_DAH_INPUT
    /\ toneType = (IF scenario = "ditSq" THEN DIT_DAH ELSE DAH_DIT)
    /\ mark >= 1
    /\ \A i \in 1..Len(elems) :
         elems[i] = IF i < mark \/ (i - mark) % 2 = 0
                    THEN SqueezeFirst ELSE SqueezeSecond
    /\ (toneState = TONE_PAUSE) => (toneTimer = stopTime + DIT_TIME)
    /\ (toneState = IDLE_STATE) => (pc = "updateToneState")

\* C4 witness: dit first, then both: a dit, then a dah sounding.
C4_Witness ==
  /\ scenario = "ditSq"
  /\ elems = <<DIT, DAH>>
  /\ mark = 1
  /\ tonePin

C5_Step ==
  (toneState \in {TONE_ON, TONE_PAUSE} /\ now' <= toneTimer)
    => UNCHANGED <<toneState, toneTimer, lastTone, tonePin>>

C5_Inv ==
  /\ (toneState = TONE_ON) =>
       (toneTimer = startTime + (IF lastTone = DIT THEN DIT_TIME ELSE DAH_TIME))
  /\ (toneState = TONE_PAUSE) =>
       /\ stopTime > startTime + (IF lastTone = DIT THEN DIT_TIME ELSE DAH_TIME)
       /\ toneTimer = stopTime + DIT_TIME

\* C5: no cancellation: while a tone or a silence is in progress and its
\* deadline has not passed, no step (whatever the intent became) changes the
\* sequencer state, the deadline, lastTone or the tone output; a started
\* element keeps the deadline computed at its start and its silence begins
\* only after that deadline.
C5_NoCancellation == [][C5_Step]_vars /\ []C5_Inv

\* C5 witness: the paddle was released (intent QUIET) in the middle of a
\* dah, which goes on sounding.
C5_Witness ==
  /\ toneState = TONE_ON
  /\ lastTone = DAH
  /\ toneType = QUIET
  /\ tonePin
  /\ startTime < now
  /\ now < toneTimer
  /\ pc = "updateCommands"

HeldKind == IF scenario = "sqRelDit" THEN DAH ELSE DIT

HeldState == IF scenario = "sqRelDit" THEN DAH_INPUT ELSE DIT_INPUT

C6_Inv ==
  Released =>
    /\ \A i \in 1..Len(elems) : (i >= mark) => (elems[i] = HeldKind)
    /\ \/ state = IDLE_STATE /\ toneType = QUIET
       \/ state = HeldState /\ toneType = HeldKind

C6_Step ==
  (pc = "updateToneState" /\ Released /\ state = HeldState
     /\ toneState = IDLE_STATE)
    => (tonePin' /\ lastTone' = HeldKind)

\* C6: after a squeeze, with one paddle released and the other still held,
\* every element started after the release is of the held paddle's kind,
\* and the output goes on: an idle sequencer starts that element at its
\* next call.
C6_ReleaseContinuesHeld == []C6_Inv /\ [][C6_Step]_vars

\* C6 witness: after dit was released from a squeeze, a dah started after
\* the release is sounding.
C6_Witness ==
  /\ scenario = "sqRelDit"
  /\ Len(elems) >= mark
  /\ tonePin

\* C7 as stated: after setWordSpeed(wpm), ditTime = 1200 / wpm and
\* dahTime = 3 * ditTime (10, 20, 40 wpm: 120/360, 60/180, 30/90 ms).
C7_Claim ==
  /\ ditTime = 1200 \div speed
  /\ dahTime = 3 * ditTime

C8_ClaimStep ==
  /\ ToneStarts =>
       (toneTimer' = now' + (IF lastTone' = DIT THEN ditTime ELSE dahTime))
  /\ ToneStops => (toneTimer' = now' + ditTime)

\* C8 as stated: an element started after setWordSpeed uses the durations
\* the setter derived: its tone deadline is the start plus ditTime (dahTime)
\* and its silence deadline the stop plus ditTime.
C8_Claim == [][C8_ClaimStep]_vars

C9_Step ==
  /\ (toneState = TONE_ON /\ toneState' = TONE_ON) =>
       (toneTimer' = toneTimer /\ tonePin')
  /\ ToneStops => (toneTimer' = now' + silenceAtStart)

\* C9: setWordSpeed called while an element is sounding alters neither its
\* tone deadline nor its silence: the deadline of a sounding tone never
\* changes, and the silence lasts the dit duration read when the tone
\* started.
C9_SpeedChangeKeepsElement == [][C9_Step]_vars

\* C9 witness: setWordSpeed was called with another speed while a dah was
\* sounding, and the dah is still sounding with its deadline unchanged.
C9_Witness ==
  /\ toneState = TONE_ON
  /\ tonePin
  /\ lastTone = DAH
  /\ speed # speedAtStart
  /\ ditTime # silenceAtStart
  /\ toneTimer = startTime + 3 * silenceAtStart

\* C10 as stated: after a pass on which both paddles were read open with
\* the interpreter idle, the intent is QUIET and the tone is off.
C10_Claim ==
  (pc = "updateCommands" /\ IdleOpenPass) => (toneType = QUIET /\ ~tonePin)

C10_MainStep ==
  (pc = "updateMainState" /\ state = IDLE_STATE
     /\ ~ditKeyInput' /\ ~dahKeyInput')
    => (toneType' = QUIET /\ state' = IDLE_STATE)

C10_ToneStep ==
  (pc = "updateToneState" /\ IdleOpenPass)
    => (toneType = QUIET /\ ~ToneStarts /\ elems' = elems)

\* C10 amended: on a pass on which both paddles are read open with the
\* interpreter idle, the intent is QUIET and no tone is started; a tone
\* already sounding goes on until its deadline.
C10_IdleOpenStartsNothing == [][C10_MainStep]_vars /\ [][C10_ToneStep]_vars

\* C10 witness: such a pass has ended with a tone still sounding.
C10_Witness ==
  /\ pc = "updateCommands"
  /\ IdleOpenPass
  /\ toneType = QUIET
  /\ tonePin

PauseEnds == toneState = TONE_PAUSE /\ toneState' # TONE_PAUSE

C11_ClaimStep ==
  (pc = "updateToneState") => (done' <=> PauseEnds)

\* C11 as stated (and as the comment above updateToneState says): the value
\* returned by updateToneState is true exactly on the call at which the
\* pause after an element ends, and false on every other call, for single,
\* repeated and squeeze elements alike.
C11_Claim == [][C11_ClaimStep]_vars

C13_ClaimStep ==
  /\ (pc = "updateToneState" /\ toneState = TONE_ON /\ now >= toneTimer) =>
       (toneState' = TONE_PAUSE /\ ~tonePin' /\ toneTimer' = now' + DIT_TIME)
  /\ (pc = "updateToneState" /\ toneState = TONE_PAUSE /\ now >= toneTimer) =>
       (toneState' # TONE_PAUSE)

\* C13 as stated: a phase ends on the first call at which the clock reading
\* is greater than or equal to the deadline (equal included): a call of
\* updateToneState entered with now >= toneTimer reads a clock that is at
\* least now, so in TONE_ON it stops the tone, sets the deadline to the
\* reading plus the dit duration and goes to TONE_PAUSE, and in TONE_PAUSE
\* it leaves TONE_PAUSE.
C13_Claim == [][C13_ClaimStep]_vars

\* C14 as stated: after every call of updateMainState, intent DIT implies
\* the dit paddle was read closed on that call and intent DAH implies the
\* dah paddle was read closed on that call.
C14_Claim ==
  (pc = "updateToneState") =>
    /\ (toneType = DIT) => ditKeyInput
    /\ (toneType = DAH) => dahKeyInput

C15_Step ==
  /\ (pc = "updateMainState" /\ state = DIT_DAH_INPUT) =>
       IF ~ditKeyInput' \/ ~dahKeyInput'
       THEN toneType' = QUIET /\ state' = IDLE_STATE
       ELSE /\ state' = DIT_DAH_INPUT
            /\ toneType' = toneType
            /\ toneType \in {DIT_DAH, DAH_DIT}
  /\ (state = DIT_INPUT /\ state' = DIT_DAH_INPUT) => (toneType' = DIT_DAH)
  /\ (state = DAH_INPUT /\ state' = DIT_DAH_INPUT) => (toneType' = DAH_DIT)

\* C15: in the squeeze state, a call of updateMainState that reads either
\* paddle open sets the intent to QUIET and the state to idle, whichever
\* paddle is still closed; one that reads both closed leaves the state and
\* the intent (DIT_DAH or DAH_DIT, as set when the squeeze was entered)
\* unchanged.
C15_SqueezeReleaseIdles == [][C15_Step]_vars

\* C15 witness: the dit paddle was just read open after a squeeze, the dah
\* paddle still closed: the interpreter is idle with intent QUIET.
C15_Witness ==
  /\ pc = "updateToneState"
  /\ scenario = "sqRelDit"
  /\ dahKeyInput /\ ~ditKeyInput
  /\ state = IDLE_STATE
  /\ toneType = QUIET

\* C17: the intent is determined by the interpreter state (idle: QUIET,
\* DIT_INPUT: DIT, DAH_INPUT: DAH, squeeze: DIT_DAH or DAH_DIT), the
\* interpreter state is one of the four used states (never DAH_DIT_INPUT)
\* and the sequencer state one of idle, TONE_ON, TONE_PAUSE.
C17_IntentFollowsState ==
  /\ state \in {IDLE_STATE, DIT_INPUT, DAH_INPUT, DIT_DAH_INPUT}
  /\ toneState \in {IDLE_STATE, TONE_ON, TONE_PAUSE}
  /\ toneType \in {QUIET, DIT, DAH, DIT_DAH, DAH_DIT}
  /\ (state = IDLE_STATE) => (toneType = QUIET)
  /\ (state = DIT_INPUT) => (toneType = DIT)
  /\ (state = DAH_INPUT) => (toneType = DAH)
  /\ (state = DIT_DAH_INPUT) => (toneType \in {DIT_DAH, DAH_DIT})

\* C17 witness: a squeeze entered from DAH_INPUT, during a pause.
C17_Witness ==
  /\ state = DIT_DAH_INPUT
  /\ toneType = DAH_DIT
  /\ toneState = TONE_PAUSE

C18_Inv ==
  /\ tonePin <=> (toneState = TONE_ON)
  /\ (toneState = IDLE_STATE) <=> (lastTone = QUIET)

C18_Step ==
  /\ ToneStarts => (pc = "updateToneState"
                      /\ toneState \in {IDLE_STATE, TONE_PAUSE}
                      /\ toneState' = TONE_ON)
  /\ ToneStops => (pc = "updateToneState" /\ toneState = TONE_ON
                     /\ toneState' # TONE_ON)

\* C18: the tone is sounding exactly when the sequencer is in TONE_ON; it
\* is started only by updateToneState from idle or TONE_PAUSE and stopped
\* only by updateToneState on leaving TONE_ON; the sequencer is idle exactly
\* when lastTone = QUIET.
C18_ToneIffToneOn == []C18_Inv /\ [][C18_Step]_vars

\* C18 witness: a dit started from TONE_PAUSE (a squeeze that began with a
\* dah) is sounding.
C18_Witness ==
  /\ scenario = "dahSq"
  /\ Len(elems) >= 2
  /\ tonePin
  /\ toneState = TONE_ON
  /\ lastTone = DIT

CanStart ==
  \/ toneState = IDLE_STATE /\ toneType # QUIET
  \/ PauseEnds /\ toneType \in {DIT_DAH, DAH_DIT}

C20_ClaimStep ==
  (pc = "updateToneState") =>
    (ToneStarts <=> (toneType # QUIET /\ (toneState = IDLE_STATE \/ PauseEnds)))

C20_ClaimInv == (scenario = "lateGone") => (Len(elems) = 1)

\* C20 as stated: a press that begins and ends while the one element of a
\* brief press is in progress, both paddles open again by the call that ends
\* the pause, starts no further element; and an element is started at
\* exactly those phase boundaries (a call made in idle, or the call that
\* ends a pause) at which the intent is not QUIET.
C20_Claim == []C20_ClaimInv /\ [][C20_ClaimStep]_vars

C20_Inv ==
  (scenario = "lateGone") =>
    /\ Len(elems) = 1
    /\ toneType = QUIET
    /\ (toneState = IDLE_STATE) => (~tonePin /\ lastTone = QUIET)

C20_Step == (pc = "updateToneState") => (ToneStarts <=> CanStart)

\* C20 amended: ... starts no further element; and an element is started
\* at exactly the calls made in idle with an intent other than QUIET and the
\* calls that end a pause with intent DIT_DAH or DAH_DIT (a pause that ends
\* with intent DIT or DAH starts nothing on that call).
C20_NoPaddleMemory == []C20_Inv /\ [][C20_Step]_vars

\* C20 witness: after a late press that came and went during the element,
\* the pause has ended and the sequencer is idle with one element played.
C20_Witness ==
  /\ scenario = "lateGone"
  /\ toneState = IDLE_STATE
  /\ elems = <<DIT>>
  /\ done
  /\ pc = "updateCommands"

PaddlesOpen == ~ditKeyInput /\ ~dahKeyInput

Rest == toneState = IDLE_STATE /\ ~tonePin /\ lastTone = QUIET

\* The explored window leaves the phases in progress time to end: the clock
\* can still pass the deadline of the pause, which for a tone in progress
\* is set at most three ticks after the tone's deadline.
Room ==
  /\ (toneState = TONE_ON) => (toneTimer + 4 * Tick + DIT_TIME <= MaxTime)
  /\ (toneState = TONE_PAUSE) => (toneTimer + Tick <= MaxTime)

C16_Step == (Rest /\ PaddlesOpen') => Rest'

C16_LeadsTo == (PaddlesOpen /\ Room) ~> (Rest \/ ~PaddlesOpen)

\* C16: once both paddles are read open and stay open, and the clock keeps
\* advancing, the sequencer reaches idle with the tone off and
\* lastTone = QUIET (it does not stay in TONE_ON or TONE_PAUSE for ever), and
\* from then on it stays so for as long as both paddles are read open.
C16_ReleaseLeadsToRest == C16_LeadsTo /\ [][C16_Step]_vars

\* C16 witness: both paddles were read open during a tone, and the
\* sequencer has since gone through the pause to idle.
C16_Witness ==
  /\ scenario \in {"ditBrief", "dahBrief"}
  /\ PaddlesOpen
  /\ Rest
  /\ done
  /\ stopTime > startTime

\* Milliseconds from clock reading a to clock reading b on the counter.
Elapsed(a, b) == (b - a) % ClockModulus

C19_ClaimStep ==
  /\ ToneStops => (Elapsed(startTime, now') >= ElementDuration(lastTone))
  /\ PauseEnds => (Elapsed(stopTime, now') >= DIT_TIME)

\* C19 as stated (the part a finite run decides): on the wrapping
\* millisecond counter no phase is cut short: when a tone stops, at least
\* the element's duration has passed since it started, and when a pause
\* ends, at least one dit duration has passed since the tone stopped, also
\* when reading + duration does not fit the counter.
C19_Claim == [][C19_ClaimStep]_vars

\* The number formed by the digits of the line typed.
TypedNumber == atoi(SubSeq(typed, 2, Len(typed) - 1))

\* C12 as stated: after updateCommands, entered with the command state
\* idle, has read 'w', a run of digits and a line terminator, setWordSpeed
\* has been called with the number the digits form and the command state is
\* idle again.
C12_Claim ==
  (typed # <<>>) => (speed = TypedNumber /\ command.state = CMD_IDLE)

====
